---- MODULE Spec2Model ----
(***************************************************************************)
(* A model of requests/packages/urllib3/connection.py:                     *)
(*   - TimedSocketFile / TimedHTTPResponse: the deadline-enforcing stream   *)
(*     and the response reader that starts its clock;                       *)
(*   - HTTPConnection / HTTPSConnection / VerifiedHTTPSConnection: the      *)
(*     connect() transitions.                                               *)
(* Time is counted in whole ticks of a non-decreasing clock.                *)
(***************************************************************************)
EXTENDS Integers, Sequences, FiniteSets, TLC

\* ------------------------------------------------------------------ bounds
\* Last instant of the clock.
MaxTime == 5
\* Largest configured timeout, in ticks.
MaxTimeout == 2
\* Number of responses read over one socket.
MaxResponses == 2
\* Number of connect() calls on one connection object.
MaxConnects == 2

\* Python's None where a number is expected (a timeout, an instant).
None == -1
\* Python's None where a name is expected (a host, a certificate setting).
Nil == "None"

Max(a, b) == IF a >= b THEN a ELSE b
Min(a, b) == IF a <= b THEN a ELSE b

VARIABLES
    \* ---- the socket and the stream wrapped around it
    now,            \* time.time()
    cfgTimeout,     \* the connection's configured timeout (self.timeout of the connection)
    sockTimeout,    \* the socket's own timeout: sock.gettimeout()
    sockClosed,     \* the socket has been closed
    timeout,        \* TimedSocketFile.timeout
    startResponse,  \* TimedSocketFile._start_response
    responses,      \* streams constructed on this socket so far
    last,           \* the most recent stream operation and how it ended
    markedAt,       \* instant of the most recent start_response() on this stream
    firstMarkedAt,  \* instant of the first start_response() on this stream
    nStarts,        \* start_response() calls on this stream (counted up to 2)
    nOk,            \* reads delegated successfully since the stream was built (up to 2)
    expired,        \* a deadline check of this stream has raised socket.timeout
    \* ---- the connection object
    kind,           \* the class of the connection
    host,           \* self.host
    tunnel_host,    \* self._tunnel_host
    sock,           \* self.sock
    auto_open,      \* self.auto_open
    is_verified,    \* self.is_verified
    cert_reqs,      \* self.cert_reqs
    assert_hostname,    \* self.assert_hostname
    assert_fingerprint, \* self.assert_fingerprint
    connects,       \* connect() calls so far
    cop,            \* the most recent connection operation
    lastConn,       \* what the most recent connect() did
    kwOptions,      \* the socket_options argument the constructor was given
    socket_options, \* self.socket_options
    applied         \* the options set on the socket of the latest TCP connect, in order

streamVars == <<now, cfgTimeout, sockTimeout, sockClosed, timeout, startResponse,
                responses, last, markedAt, firstMarkedAt, nStarts, nOk, expired>>
optVars == <<kwOptions, socket_options, applied>>
connVars == <<kind, host, tunnel_host, sock, auto_open, is_verified, cert_reqs,
              assert_hostname, assert_fingerprint, connects, cop, lastConn, optVars>>
vars == <<streamVars, connVars>>

\* ======================================================= TimedSocketFile
Timeouts == {None} \cup (1..MaxTimeout)

CheckedOps == {"read", "readline", "readlines", "write", "writelines"}
PlainOps == {"flush", "next"}
IOOps == CheckedOps \cup PlainOps \cup {"begin"}

NoLast == [op |-> "init", at |-> 0, elapsed |-> None, result |-> "none",
           delegated |-> FALSE]

\* TimedSocketFile.__init__: the timeout is copied from the socket, the start
\* instant is unset.
StreamInitTimeout(st) == st

\* A start_response that keeps the first instant it recorded.
start_response_once(cur, t) == IF cur = None THEN t ELSE cur

\* start_response: self._start_response = time.time()
start_response(cur, t) == t

\* An elapsed time measured by each call on its own: a per-read timeout.
Elapsed_per_call(self_start, t) == 0

\* elapsed = time.time() - self._start_response
Elapsed(self_start, t) == t - self_start

\* A _validate_ttl that raises on an overrun without closing the socket.
validate_ttl_no_close(self_timeout, self_start, t) ==
    IF self_timeout = None
    THEN [exc |-> "none", close |-> FALSE, settimeout |-> FALSE, value |-> None,
          elapsed |-> None]
    ELSE IF self_start = None
    THEN [exc |-> "TypeError", close |-> FALSE, settimeout |-> FALSE, value |-> None,
          elapsed |-> None]
    ELSE LET elapsed == Elapsed(self_start, t) IN
         IF elapsed > self_timeout
         THEN [exc |-> "socket.timeout", close |-> FALSE, settimeout |-> FALSE,
               value |-> None, elapsed |-> elapsed]
         ELSE [exc |-> "none", close |-> FALSE, settimeout |-> TRUE,
               value |-> Max(self_timeout - elapsed, 0), elapsed |-> elapsed]

\* A _validate_ttl without the "timeout is not None" guard: None compares below
\* every elapsed time.
validate_ttl_unguarded(self_timeout, self_start, t) ==
    IF self_start = None
    THEN [exc |-> "TypeError", close |-> FALSE, settimeout |-> FALSE, value |-> None,
          elapsed |-> None]
    ELSE LET elapsed == Elapsed(self_start, t) IN
         IF elapsed > self_timeout
         THEN [exc |-> "socket.timeout", close |-> TRUE, settimeout |-> FALSE,
               value |-> None, elapsed |-> elapsed]
         ELSE [exc |-> "none", close |-> FALSE, settimeout |-> TRUE,
               value |-> Max(self_timeout - elapsed, 0), elapsed |-> elapsed]

\* A _validate_ttl that already raises when the elapsed time equals the timeout.
validate_ttl_ge(self_timeout, self_start, t) ==
    IF self_timeout = None
    THEN [exc |-> "none", close |-> FALSE, settimeout |-> FALSE, value |-> None,
          elapsed |-> None]
    ELSE IF self_start = None
    THEN [exc |-> "TypeError", close |-> FALSE, settimeout |-> FALSE, value |-> None,
          elapsed |-> None]
    ELSE LET elapsed == Elapsed(self_start, t) IN
         IF elapsed >= self_timeout
         THEN [exc |-> "socket.timeout", close |-> TRUE, settimeout |-> FALSE,
               value |-> None, elapsed |-> elapsed]
         ELSE [exc |-> "none", close |-> FALSE, settimeout |-> TRUE,
               value |-> Max(self_timeout - elapsed, 0), elapsed |-> elapsed]

\* _validate_ttl: what the deadline check decides at instant t.
\*   exc        the exception it raises ("none" when it returns)
\*   close      it closes the socket
\*   settimeout it calls sock.settimeout(value)
validate_ttl(self_timeout, self_start, t) ==
    IF self_timeout = None
    THEN [exc |-> "none", close |-> FALSE, settimeout |-> FALSE, value |-> None,
          elapsed |-> None]
    ELSE IF self_start = None
    THEN \* time.time() - None
         [exc |-> "TypeError", close |-> FALSE, settimeout |-> FALSE, value |-> None,
          elapsed |-> None]
    ELSE LET elapsed == Elapsed(self_start, t) IN
         IF elapsed > self_timeout
         THEN [exc |-> "socket.timeout", close |-> TRUE, settimeout |-> FALSE,
               value |-> None, elapsed |-> elapsed]
         ELSE [exc |-> "none", close |-> FALSE, settimeout |-> TRUE,
               value |-> Max(self_timeout - elapsed, 0), elapsed |-> elapsed]

\* The call on the wrapped stream, self.fp.<op>(...), at instant t on a socket
\* whose timeout is budget: how it can end and how long it blocks.
\*   closed socket      fails at once (EBADF)
\*   no timeout         blocks until the data is there
\*   budget 0           non-blocking: the data is there, or EAGAIN
\*   budget b > 0       the data arrives within b, or socket.timeout after b
Delegate(closed, budget, t) ==
    IF closed THEN {[result |-> "EBADF", dt |-> 0]}
    ELSE IF budget = None
    THEN {[result |-> "ok", dt |-> d] : d \in 0..(MaxTime - t)}
    ELSE IF budget = 0
    THEN {[result |-> "ok", dt |-> 0], [result |-> "EAGAIN", dt |-> 0]}
    ELSE {[result |-> "ok", dt |-> d] : d \in 0..Min(budget, MaxTime - t)}
         \cup (IF t + budget <= MaxTime
               THEN {[result |-> "socket.timeout", dt |-> budget]}
               ELSE {})

\* One stream operation: the deadline check (when the operation has one), then
\* the call on the wrapped stream.  start is the value of _start_response the
\* check reads; allowed restricts how the wrapped call may end.
StreamOp(op, checked, start, allowed) ==
    LET v == IF checked THEN validate_ttl(timeout, start, now)
             ELSE [exc |-> "none", close |-> FALSE, settimeout |-> FALSE,
                   value |-> None, elapsed |-> None]
    IN  IF v.exc # "none"
        THEN /\ sockClosed' = (sockClosed \/ v.close)
             /\ expired' = (expired \/ v.exc = "socket.timeout")
             /\ UNCHANGED <<now, sockTimeout, nOk>>
             /\ last' = [op |-> op, at |-> now, elapsed |-> v.elapsed,
                         result |-> v.exc, delegated |-> FALSE]
        ELSE LET budget == IF v.settimeout THEN v.value ELSE sockTimeout IN
             \E o \in Delegate(sockClosed, budget, now) :
                /\ o.result \in allowed
                \* settimeout on a closed socket still records the value
                /\ sockTimeout' = budget
                /\ now' = now + o.dt
                /\ nOk' = IF o.result = "ok" THEN Min(nOk + 1, 2) ELSE nOk
                /\ last' = [op |-> op, at |-> now, elapsed |-> v.elapsed,
                            result |-> o.result, delegated |-> TRUE]
                /\ UNCHANGED <<sockClosed, expired>>

AnyResult == {"ok", "EBADF", "EAGAIN", "socket.timeout"}

\* Time passes between two calls.
Tick ==
    /\ now < MaxTime
    /\ now' = now + 1
    /\ UNCHANGED <<cfgTimeout, sockTimeout, sockClosed, timeout, startResponse,
                   responses, last, markedAt, firstMarkedAt, nStarts, nOk, expired>>
    /\ UNCHANGED connVars

\* TimedHTTPResponse.__init__: a new TimedSocketFile on the same socket.
NewResponse ==
    /\ responses < MaxResponses
    /\ ~sockClosed
    /\ responses' = responses + 1
    /\ timeout' = StreamInitTimeout(sockTimeout)
    /\ startResponse' = None
    /\ markedAt' = None
    /\ firstMarkedAt' = None
    /\ nStarts' = 0
    /\ nOk' = 0
    /\ expired' = FALSE
    /\ last' = [NoLast EXCEPT !.op = "new_response", !.at = now]
    /\ UNCHANGED <<now, cfgTimeout, sockTimeout, sockClosed>>
    /\ UNCHANGED connVars

MarkStart ==
    /\ startResponse' = start_response(startResponse, now)
    /\ markedAt' = now
    /\ firstMarkedAt' = IF nStarts = 0 THEN now ELSE firstMarkedAt
    /\ nStarts' = Min(nStarts + 1, 2)

\* TimedSocketFile.start_response()
StartResponse ==
    /\ MarkStart
    /\ last' = [NoLast EXCEPT !.op = "start_response", !.at = now]
    /\ UNCHANGED <<now, cfgTimeout, sockTimeout, sockClosed, timeout, responses, nOk,
                   expired>>
    /\ UNCHANGED connVars

\* A begin() that lets the parser read before it records the start instant.
Begin_read_first ==
    /\ StreamOp("begin", TRUE, startResponse, AnyResult)
    /\ MarkStart
    /\ UNCHANGED <<cfgTimeout, timeout, responses>>
    /\ UNCHANGED connVars

\* TimedHTTPResponse.begin(): start_response(), then the parser's first
\* readline (the status line); the header lines are further ReadLine steps.
Begin ==
    /\ MarkStart
    /\ StreamOp("begin", TRUE, startResponse', AnyResult)
    /\ UNCHANGED <<cfgTimeout, timeout, responses>>
    /\ UNCHANGED connVars

Checked(op) ==
    /\ StreamOp(op, TRUE, startResponse, AnyResult)
    /\ UNCHANGED <<cfgTimeout, timeout, startResponse, responses, markedAt,
                   firstMarkedAt, nStarts>>
    /\ UNCHANGED connVars

Plain(op) ==
    /\ StreamOp(op, FALSE, startResponse, AnyResult)
    /\ UNCHANGED <<cfgTimeout, timeout, startResponse, responses, markedAt,
                   firstMarkedAt, nStarts>>
    /\ UNCHANGED connVars

Read == Checked("read")
ReadLine == Checked("readline")
ReadLines == Checked("readlines")
Write == Checked("write")
WriteLines == Checked("writelines")
Flush == Plain("flush")
NextLine == Plain("next")

\* A stream just built on a freshly connected socket.
StreamInit ==
    /\ now = 0
    /\ cfgTimeout \in Timeouts
    /\ sockTimeout = cfgTimeout
    /\ sockClosed = FALSE
    /\ timeout = StreamInitTimeout(sockTimeout)
    /\ startResponse = None
    /\ responses = 1
    /\ last = NoLast
    /\ markedAt = None
    /\ firstMarkedAt = None
    /\ nStarts = 0
    /\ nOk = 0
    /\ expired = FALSE

\* ============================================================ connection
Kinds == {"HTTPConnection", "HTTPSConnection", "VerifiedHTTPSConnection"}
TLSKinds == {"HTTPSConnection", "VerifiedHTTPSConnection"}

\* What set_cert can be given.
CertReqs == {Nil, "CERT_OPTIONAL", "CERT_REQUIRED", "REQUIRED"}
AssertHostnames == {Nil, "False", "other"}
AssertFingerprints == {Nil, "fpA"}
\* What the peer can present.
CertNames == {"origin", "target", "other"}
CertFingerprints == {"fpA", "fpB"}

NoSock == [id |-> 0, layer |-> "none"]
NoExc == [kind |-> "none", host |-> Nil, timeout |-> None]
VerificationErrors == {"SSLError: Fingerprints did not match", "CertificateError"}

\* Python truthiness of an optional name.
Truthy(x) == x # Nil /\ x # "False" /\ x # ""

\* What one connect() meets on the network:
\*   tcp     create_connection succeeds, times out, or is refused
\*   tunnel  the proxy accepts the CONNECT, or not ("-" when no tunnel is asked)
\*   tls     the handshake succeeds, fails only if the chain is verified, or fails
\*   name, fp  the subject and the digest of the peer's certificate
\* Fields a connect() never gets to are "-".
Envs(k, tun) ==
    LET tunnels == IF Truthy(tun) THEN {"ok", "fail"} ELSE {"-"} IN
    {[tcp |-> "timeout", tunnel |-> "-", tls |-> "-", name |-> "-", fp |-> "-"],
     [tcp |-> "refused", tunnel |-> "-", tls |-> "-", name |-> "-", fp |-> "-"]}
    \cup (IF Truthy(tun)
          THEN {[tcp |-> "ok", tunnel |-> "fail", tls |-> "-", name |-> "-", fp |-> "-"]}
          ELSE {})
    \cup (IF k = "HTTPConnection"
          THEN {[tcp |-> "ok", tunnel |-> t, tls |-> "-", name |-> "-", fp |-> "-"] :
                  t \in tunnels \ {"fail"}}
          ELSE {[tcp |-> "ok", tunnel |-> t, tls |-> "fail", name |-> "-", fp |-> "-"] :
                  t \in tunnels \ {"fail"}}
               \cup {[tcp |-> "ok", tunnel |-> t, tls |-> h, name |-> n, fp |-> f] :
                       t \in tunnels \ {"fail"}, h \in {"ok", "untrusted"},
                       n \in CertNames, f \in CertFingerprints})

\* The connection object's fields, as connect() reads them.
Self ==
    [host |-> host, timeout |-> cfgTimeout, tunnel_host |-> tunnel_host,
     sock |-> sock, auto_open |-> auto_open, is_verified |-> is_verified,
     cert_reqs |-> cert_reqs, assert_hostname |-> assert_hostname,
     assert_fingerprint |-> assert_fingerprint, socket_options |-> socket_options]

\* What connect() leaves behind: the fields it assigns, the exception it
\* raises, and the steps it went through, in order.
Outcome(self, sk, ao, iv, exc, events, identity, target) ==
    [sock |-> sk, auto_open |-> ao, is_verified |-> iv, exc |-> exc,
     events |-> events, identity |-> identity, server_hostname |-> identity,
     target |-> target]

\* HTTPConnection.default_socket_options
default_socket_options == <<"TCP_NODELAY=1">>

\* The socket_options keyword of the constructor: absent, or a list.
NotGiven == [given |-> FALSE, value |-> <<>>]
OptionLists ==
    {<<>>, <<"SO_KEEPALIVE=1">>, <<"SO_KEEPALIVE=1", "TCP_NODELAY=1">>,
     <<"TCP_NODELAY=1", "SO_KEEPALIVE=1">>}
KwOptions == {NotGiven} \cup {[given |-> TRUE, value |-> v] : v \in OptionLists}

\* A constructor that adds the caller's options to the defaults.
InitSocketOptions_append(kw) == default_socket_options \o kw.value

\* __init__: self.socket_options = kw.pop('socket_options', self.default_socket_options)
InitSocketOptions(kw) == IF kw.given THEN kw.value ELSE default_socket_options

\* _new_conn: extra_kw['socket_options'] is set only for a non-empty list.
ExtraKw(self) ==
    IF self.socket_options # <<>>
    THEN [given |-> TRUE, value |-> self.socket_options]
    ELSE NotGiven

\* util.connection.create_connection: the options it is given are set on the
\* new socket one after the other; without the keyword none is set.
create_connection_options(extra_kw) ==
    IF extra_kw.given THEN extra_kw.value ELSE <<>>

\* A _new_conn that lets socket.timeout through.
new_conn_unwrapped(self, env, id) ==
    IF env.tcp = "timeout"
    THEN [exc |-> [kind |-> "socket.timeout", host |-> Nil, timeout |-> None],
          conn |-> NoSock, opts |-> <<>>]
    ELSE IF env.tcp = "refused"
    THEN [exc |-> [kind |-> "socket.error", host |-> Nil, timeout |-> None],
          conn |-> NoSock, opts |-> <<>>]
    ELSE [exc |-> NoExc, conn |-> [id |-> id, layer |-> "raw"],
          opts |-> create_connection_options(ExtraKw(self))]

\* HTTPConnection._new_conn
new_conn(self, env, id) ==
    IF env.tcp = "timeout"
    THEN [exc |-> [kind |-> "ConnectTimeoutError", host |-> self.host,
                   timeout |-> self.timeout],
          conn |-> NoSock, opts |-> <<>>]
    ELSE IF env.tcp = "refused"
    THEN [exc |-> [kind |-> "socket.error", host |-> Nil, timeout |-> None],
          conn |-> NoSock, opts |-> <<>>]
    ELSE [exc |-> NoExc, conn |-> [id |-> id, layer |-> "raw"],
          opts |-> create_connection_options(ExtraKw(self))]

\* A _prepare_conn that marks every connection as not reusable.
prepare_conn_always(self, conn, env) ==
    IF Truthy(self.tunnel_host)
    THEN IF env.tunnel = "ok"
         THEN Outcome(self, conn, 0, self.is_verified, NoExc,
                      <<"tcp", "sock", "tunnel">>, Nil, Nil)
         ELSE Outcome(self, conn, 0, self.is_verified,
                      [kind |-> "socket.error", host |-> Nil, timeout |-> None],
                      <<"tcp", "sock", "tunnel_failed">>, Nil, Nil)
    ELSE Outcome(self, conn, 0, self.is_verified, NoExc,
                 <<"tcp", "sock">>, Nil, Nil)

\* HTTPConnection._prepare_conn: self.sock = conn, then the tunnel.
prepare_conn(self, conn, env) ==
    IF Truthy(self.tunnel_host)
    THEN IF env.tunnel = "ok"
         THEN Outcome(self, conn, 0, self.is_verified, NoExc,
                      <<"tcp", "sock", "tunnel">>, Nil, Nil)
         ELSE Outcome(self, conn, self.auto_open, self.is_verified,
                      [kind |-> "socket.error", host |-> Nil, timeout |-> None],
                      <<"tcp", "sock", "tunnel_failed">>, Nil, Nil)
    ELSE Outcome(self, conn, self.auto_open, self.is_verified, NoExc,
                 <<"tcp", "sock">>, Nil, Nil)

\* HTTPConnection.connect
connect_base(self, env, id) ==
    LET c == new_conn(self, env, id) IN
    IF c.exc.kind # "none"
    THEN Outcome(self, self.sock, self.auto_open, self.is_verified, c.exc, <<>>, Nil, Nil)
    ELSE prepare_conn(self, c.conn, env)

\* HTTPSConnection.connect: the base steps, then ssl.wrap_socket without any
\* certificate requirement.
connect_tls(self, env, id) ==
    LET p == connect_base(self, env, id) IN
    IF p.exc.kind # "none" THEN p
    ELSE IF env.tls = "fail"
    THEN [p EXCEPT !.exc = [kind |-> "SSLError", host |-> Nil, timeout |-> None],
                   !.events = p.events \o <<"tls">>]
    ELSE [p EXCEPT !.sock = [id |-> id, layer |-> "tls"],
                   !.events = p.events \o <<"tls", "wrapped">>]

\* util.ssl_.resolve_cert_reqs: None means CERT_NONE, a short name is completed
\* with the CERT_ prefix, a constant is kept.
resolve_cert_reqs(candidate) ==
    IF candidate = Nil THEN "CERT_NONE"
    ELSE IF candidate \in {"NONE", "OPTIONAL", "REQUIRED"}
    THEN CASE candidate = "NONE" -> "CERT_NONE"
           [] candidate = "OPTIONAL" -> "CERT_OPTIONAL"
           [] candidate = "REQUIRED" -> "CERT_REQUIRED"
    ELSE candidate

\* util.ssl_.ssl_wrap_socket: the handshake under the resolved requirement level.
ssl_wrap_ok(resolved, env) ==
    \/ env.tls = "ok"
    \/ env.tls = "untrusted" /\ resolved = "CERT_NONE"

\* util.ssl_.assert_fingerprint: the digest of the peer's certificate against
\* the expected one.
fingerprint_ok(env, expected) == env.fp = expected

\* ssl_match_hostname.match_hostname: the certificate's subject against a name.
hostname_ok(env, name) == env.name = name

\* An identity that ignores the tunnel target.
VerifyIdentity_host(self) == self.host

\* hostname = self.host, overridden by self._tunnel_host when tunnelling.
VerifyIdentity(self) ==
    IF Truthy(self.tunnel_host) THEN self.tunnel_host ELSE self.host

\* A choice of checks where the hostname check is an "if", not an "elif".
ChecksRun_both(resolved, af, ah) ==
    IF resolved # "CERT_NONE"
    THEN (IF Truthy(af) THEN <<"fingerprint">> ELSE <<>>)
         \o (IF ah # "False" THEN <<"hostname">> ELSE <<>>)
    ELSE <<>>

\* The checks connect() runs after the handshake.
ChecksRun(resolved, af, ah) ==
    IF resolved # "CERT_NONE"
    THEN IF Truthy(af) THEN <<"fingerprint">>
         ELSE IF ah # "False" THEN <<"hostname">>
         ELSE <<>>
    ELSE <<>>

\* self.assert_hostname or hostname
MatchTarget(ah, hostname) == IF Truthy(ah) THEN ah ELSE hostname

\* A verified flag set for every level that asks for a certificate.
Verified_any(resolved) == resolved # "CERT_NONE"

\* self.is_verified = resolved_cert_reqs == ssl.CERT_REQUIRED
Verified(resolved) == resolved = "CERT_REQUIRED"

\* The first check of the sequence that fails, or "none".
FirstFailure(checks, env, af, target) ==
    LET bad == {i \in 1..Len(checks) :
                  \/ checks[i] = "fingerprint" /\ ~fingerprint_ok(env, af)
                  \/ checks[i] = "hostname" /\ ~hostname_ok(env, target)}
    IN IF bad = {} THEN "none"
       ELSE checks[CHOOSE i \in bad : \A j \in bad : i <= j]

\* The checks that were started, up to and including the first that fails.
Started(checks, env, af, target) ==
    LET bad == {i \in 1..Len(checks) :
                  \/ checks[i] = "fingerprint" /\ ~fingerprint_ok(env, af)
                  \/ checks[i] = "hostname" /\ ~hostname_ok(env, target)}
    IN IF bad = {} THEN checks
       ELSE SubSeq(checks, 1, CHOOSE i \in bad : \A j \in bad : i <= j)

\* VerifiedHTTPSConnection.connect
connect_verified(self, env, id) ==
    LET c == new_conn(self, env, id)
        resolved == resolve_cert_reqs(self.cert_reqs)
        tun == Truthy(self.tunnel_host)
        hostname == VerifyIdentity(self)
        target == MatchTarget(self.assert_hostname, hostname)
        raw == c.conn
        tls == [id |-> id, layer |-> "tls"]
        ev0 == IF tun THEN <<"tcp", "sock", "tunnel">> ELSE <<"tcp">>
        ao == IF tun THEN 0 ELSE self.auto_open
        checks == ChecksRun(resolved, self.assert_fingerprint, self.assert_hostname)
        failed == FirstFailure(checks, env, self.assert_fingerprint, target)
        ev2 == ev0 \o <<"tls", "wrapped">>
                   \o Started(checks, env, self.assert_fingerprint, target)
    IN  IF c.exc.kind # "none"
        THEN Outcome(self, self.sock, self.auto_open, self.is_verified, c.exc,
                     <<>>, Nil, Nil)
        ELSE IF tun /\ env.tunnel # "ok"
        THEN Outcome(self, raw, self.auto_open, self.is_verified,
                     [kind |-> "socket.error", host |-> Nil, timeout |-> None],
                     <<"tcp", "sock", "tunnel_failed">>, Nil, Nil)
        ELSE IF ~ssl_wrap_ok(resolved, env)
        THEN Outcome(self, IF tun THEN raw ELSE self.sock, ao, self.is_verified,
                     [kind |-> "SSLError", host |-> Nil, timeout |-> None],
                     ev0 \o <<"tls">>, hostname, Nil)
        ELSE IF failed = "fingerprint"
        THEN Outcome(self, tls, ao, self.is_verified,
                     [kind |-> "SSLError: Fingerprints did not match", host |-> Nil,
                      timeout |-> None],
                     ev2, hostname, target)
        ELSE IF failed = "hostname"
        THEN Outcome(self, tls, ao, self.is_verified,
                     [kind |-> "CertificateError", host |-> Nil, timeout |-> None],
                     ev2, hostname, target)
        ELSE Outcome(self, tls, ao, Verified(resolved), NoExc, ev2, hostname, target)

NoConn ==
    [id |-> 0, env |-> [tcp |-> "-", tunnel |-> "-", tls |-> "-", name |-> "-", fp |-> "-"],
     pre |-> [sock |-> NoSock, auto_open |-> 1, is_verified |-> FALSE],
     exc |-> NoExc, events |-> <<>>, identity |-> Nil, server_hostname |-> Nil,
     target |-> Nil]

\* connect() applied to the connection: r is what the class's connect() leaves.
Apply(r, env, id) ==
    /\ sock' = r.sock
    /\ auto_open' = r.auto_open
    /\ is_verified' = r.is_verified
    /\ connects' = id
    /\ cop' = "connect"
    /\ lastConn' = [id |-> id, env |-> env,
                    pre |-> [sock |-> sock, auto_open |-> auto_open,
                             is_verified |-> is_verified],
                    exc |-> r.exc, events |-> r.events, identity |-> r.identity,
                    server_hostname |-> r.server_hostname, target |-> r.target]
    /\ applied' = IF env.tcp = "ok" THEN new_conn(Self, env, id).opts ELSE applied
    /\ UNCHANGED <<kind, host, tunnel_host, cert_reqs, assert_hostname,
                   assert_fingerprint, kwOptions, socket_options>>
    /\ UNCHANGED streamVars

ConnectBase ==
    /\ kind = "HTTPConnection"
    /\ connects < MaxConnects
    /\ \E env \in Envs(kind, tunnel_host) :
          Apply(connect_base(Self, env, connects + 1), env, connects + 1)

ConnectTLS ==
    /\ kind = "HTTPSConnection"
    /\ connects < MaxConnects
    /\ \E env \in Envs(kind, tunnel_host) :
          Apply(connect_tls(Self, env, connects + 1), env, connects + 1)

ConnectVerified ==
    /\ kind = "VerifiedHTTPSConnection"
    /\ connects < MaxConnects
    /\ \E env \in Envs(kind, tunnel_host) :
          Apply(connect_verified(Self, env, connects + 1), env, connects + 1)

\* VerifiedHTTPSConnection.set_cert
SetCert ==
    /\ kind = "VerifiedHTTPSConnection"
    /\ \E cr \in CertReqs, ah \in AssertHostnames, af \in AssertFingerprints :
          /\ cert_reqs' = cr
          /\ assert_hostname' = ah
          /\ assert_fingerprint' = af
    /\ cop' = "set_cert"
    /\ UNCHANGED <<kind, host, tunnel_host, sock, auto_open, is_verified, connects,
                   lastConn>>
    /\ UNCHANGED optVars
    /\ UNCHANGED streamVars

\* close(), inherited from httplib: the socket is closed and forgotten.
Close ==
    /\ sock # NoSock
    /\ sock' = NoSock
    /\ cop' = "close"
    /\ UNCHANGED <<kind, host, tunnel_host, auto_open, is_verified, cert_reqs,
                   assert_hostname, assert_fingerprint, connects, lastConn>>
    /\ UNCHANGED optVars
    /\ UNCHANGED streamVars

\* A constructed connection: is_verified is the class attribute False,
\* auto_open is httplib's 1, no certificate setting has been given.
ConnFields ==
    /\ host = "origin"
    /\ sock = NoSock
    /\ auto_open = 1
    /\ is_verified = FALSE
    /\ cert_reqs = Nil
    /\ assert_hostname = Nil
    /\ assert_fingerprint = Nil
    /\ connects = 0
    /\ cop = "init"
    /\ lastConn = NoConn
    /\ socket_options = InitSocketOptions(kwOptions)
    /\ applied = <<>>

ConnIdle ==
    /\ kind = "HTTPConnection"
    /\ tunnel_host = Nil
    /\ kwOptions = NotGiven
    /\ ConnFields

ConnInit ==
    /\ StreamInit
    /\ cfgTimeout \in {None, MaxTimeout}
    /\ kind \in Kinds
    /\ tunnel_host \in {Nil, "target"}
    /\ kwOptions = NotGiven
    /\ ConnFields

\* ========================================================= specifications
Init == StreamInit /\ ConnIdle

Next ==
    \/ Tick
    \/ NewResponse
    \/ StartResponse
    \/ Begin
    \/ Read
    \/ ReadLine
    \/ ReadLines
    \/ Write
    \/ WriteLines
    \/ Flush
    \/ NextLine

Spec == Init /\ [][Next]_vars

\* The connection objects: one object of each class, with or without a tunnel
\* target, configured, connected and closed in any order.
ConnNext ==
    \/ SetCert
    \/ ConnectBase
    \/ ConnectTLS
    \/ ConnectVerified
    \/ Close

ConnSpec == ConnInit /\ [][ConnNext]_vars

\* Connections built with any socket_options argument, or none, and no
\* certificate setting, connected and closed in any order.
OptionsInit ==
    /\ StreamInit
    /\ kind \in Kinds
    /\ tunnel_host \in {Nil, "target"}
    /\ kwOptions \in KwOptions
    /\ ConnFields

OptionsNext ==
    \/ ConnectBase
    \/ ConnectTLS
    \/ ConnectVerified
    \/ Close

OptionsSpec == OptionsInit /\ [][OptionsNext]_vars

\* The request of src/test_timeout.py: one response that never ends, the server
\* delivering data so that every read returns within its budget, the client
\* reading until a call fails.
Failed == last.op \in IOOps /\ last.result # "ok"

BeginOnce ==
    /\ startResponse = None
    /\ ~Failed
    /\ MarkStart
    /\ StreamOp("begin", TRUE, startResponse', {"ok"})
    /\ UNCHANGED <<cfgTimeout, timeout, responses>>
    /\ UNCHANGED connVars

StreamingRead ==
    /\ startResponse # None
    /\ ~Failed
    /\ StreamOp("read", TRUE, startResponse, {"ok"})
    /\ UNCHANGED <<cfgTimeout, timeout, startResponse, responses, markedAt,
                   firstMarkedAt, nStarts>>
    /\ UNCHANGED connVars

StreamingNext ==
    \/ Tick
    \/ BeginOnce
    \/ StreamingRead

\* Time passes, and the synchronous client calls begin() and then keeps reading
\* for as long as no call has failed.
StreamingSpec ==
    /\ Init
    /\ [][StreamingNext]_vars
    /\ WF_vars(Tick)
    /\ WF_vars(BeginOnce)
    /\ WF_vars(StreamingRead)

\* ================================================================ claims

\* C1: with a timeout T > 0 (the stream's own, or the one the connection was
\* configured with) and a response start recorded at s, a
\* read/readline/readlines/write/writelines call made later than s + T fails
\* with socket.timeout, is not delegated to the wrapped stream, and leaves the
\* socket closed.
C1_LateCallTimesOut ==
    (/\ last.op \in CheckedOps
     /\ startResponse # None
     /\ \/ timeout # None /\ timeout > 0 /\ last.at > startResponse + timeout
        \/ cfgTimeout # None /\ cfgTimeout > 0 /\ last.at > startResponse + cfgTimeout)
    => (/\ last.result = "socket.timeout"
        /\ ~last.delegated
        /\ sockClosed)

C1_Witness ==
    /\ last.op = "read"
    /\ timeout # None /\ timeout > 0
    /\ startResponse # None
    /\ last.at > startResponse + timeout
    /\ last.result = "socket.timeout"
    /\ sockClosed

\* C2: the deadline covers the whole response.  While the server keeps
\* delivering data within every read's budget, a successful read leaves the
\* response-start instant as it was, no call is delegated later than
\* start + T, and the request ends in socket.timeout.
C2_NoLateDelegation ==
    (/\ last.op \in CheckedOps \cup {"begin"}
     /\ last.delegated
     /\ timeout # None)
    => last.at <= startResponse + timeout

C2_WindowKept ==
    (last' # last /\ last'.op \in CheckedOps) => startResponse' = startResponse

C2_WholeResponseDeadline ==
    /\ []C2_NoLateDelegation
    /\ [][C2_WindowKept]_vars
    /\ (timeout # None /\ startResponse # None /\ startResponse + timeout < MaxTime)
          ~> (last.op = "read" /\ last.result = "socket.timeout" /\ ~last.delegated)

C2_Witness ==
    /\ timeout # None
    /\ nOk = 2
    /\ last.op = "read"
    /\ last.result = "socket.timeout"
    /\ ~last.delegated
    /\ last.at > startResponse + timeout

\* C3: a stream whose socket has no timeout never raises a timeout, never
\* closes the socket and never changes the socket's timeout; every operation is
\* delegated.
C3_NoTimeoutPassThrough ==
    timeout = None =>
        /\ ~sockClosed
        /\ sockTimeout = None
        /\ (last.op \in IOOps =>
               /\ last.delegated
               /\ last.result = "ok"
               /\ last.elapsed = None)

C3_Witness ==
    /\ timeout = None
    /\ startResponse # None
    /\ now - startResponse > MaxTimeout
    /\ last.op = "read"
    /\ last.at - startResponse > MaxTimeout
    /\ last.delegated

\* C4: a second start_response() resets the window: a deadline check measures
\* the elapsed time from the most recent start_response() call and fails
\* exactly when that time exceeds the timeout.
C4_WindowFromLatestStart ==
    (/\ last.op \in CheckedOps
     /\ timeout # None
     /\ markedAt # None)
    => (/\ last.elapsed = last.at - markedAt
        /\ (last.result = "socket.timeout" /\ ~last.delegated)
              <=> (last.at - markedAt > timeout))

C4_Witness ==
    /\ nStarts = 2
    /\ firstMarkedAt < markedAt
    /\ last.op = "read"
    /\ timeout # None
    /\ last.at - firstMarkedAt > timeout
    /\ last.at - markedAt <= timeout
    /\ last.delegated
    /\ last.result = "ok"

\* ------------------------------------------------------ connection claims
Has(seq, e) == \E i \in 1..Len(seq) : seq[i] = e
Pos(seq, e) == IF Has(seq, e) THEN CHOOSE i \in 1..Len(seq) : seq[i] = e ELSE 0
IsCheck(e) == e \in {"fingerprint", "hostname"}

\* C5: a connect() whose TCP connect times out raises ConnectTimeoutError with
\* the connection's host and timeout; any other TCP failure propagates as it is;
\* either way self.sock, is_verified and auto_open are what they were, and the
\* socket of this attempt is not stored.
C5_ConnectFailureLeavesUnconnected ==
    (cop = "connect" /\ lastConn.env.tcp # "ok") =>
        /\ lastConn.env.tcp = "timeout" =>
              lastConn.exc = [kind |-> "ConnectTimeoutError", host |-> host,
                              timeout |-> cfgTimeout]
        /\ lastConn.env.tcp = "refused" => lastConn.exc.kind = "socket.error"
        /\ sock = lastConn.pre.sock
        /\ sock.id # lastConn.id
        /\ is_verified = lastConn.pre.is_verified
        /\ auto_open = lastConn.pre.auto_open

C5_Witness ==
    /\ cop = "connect"
    /\ kind = "VerifiedHTTPSConnection"
    /\ lastConn.env.tcp = "timeout"
    /\ lastConn.exc.kind = "ConnectTimeoutError"
    /\ lastConn.exc.timeout = MaxTimeout
    /\ sock = NoSock

\* C6: after connect() returns, is_verified holds exactly on a verified TLS
\* connection whose resolved requirement level is CERT_REQUIRED, and every check
\* that connect() ran has passed.
C6_VerifiedIffRequired ==
    (cop = "connect" /\ lastConn.exc.kind = "none") =>
        /\ is_verified <=> (/\ kind = "VerifiedHTTPSConnection"
                            /\ resolve_cert_reqs(cert_reqs) = "CERT_REQUIRED")
        /\ Has(lastConn.events, "fingerprint") => lastConn.env.fp = assert_fingerprint
        /\ Has(lastConn.events, "hostname") => lastConn.env.name = lastConn.target

C6_Witness ==
    /\ cop = "connect"
    /\ lastConn.exc.kind = "none"
    /\ kind = "VerifiedHTTPSConnection"
    /\ cert_reqs = "REQUIRED"
    /\ Has(lastConn.events, "hostname")
    /\ is_verified

\* C7: when the most recent connect() of a verified TLS connection ended in a
\* verification failure, is_verified is false.
C7_FailedVerificationNotVerified ==
    (/\ kind = "VerifiedHTTPSConnection"
     /\ lastConn.exc.kind \in VerificationErrors)
    => ~is_verified

\* C8: after a connect() that failed verification, the TLS socket of that
\* attempt is not the connection's socket.
C8_FailedSocketNotRetained ==
    (cop = "connect" /\ lastConn.exc.kind \in VerificationErrors)
    => sock # [id |-> lastConn.id, layer |-> "tls"]

\* C9: with a resolved level other than CERT_NONE, a verified connect() that
\* got through the handshake runs the fingerprint check alone when a fingerprint
\* is configured, and succeeds exactly when the fingerprint matches; without a
\* fingerprint it runs the hostname check alone, unless assert_hostname is
\* False, against the override if there is one, else against the verification
\* identity, and succeeds exactly when that name matches.
C9_ExclusiveChecks ==
    (/\ cop = "connect"
     /\ kind = "VerifiedHTTPSConnection"
     /\ Has(lastConn.events, "wrapped")
     /\ resolve_cert_reqs(cert_reqs) # "CERT_NONE")
    => LET checks == SelectSeq(lastConn.events, IsCheck)
           name == IF Truthy(assert_hostname) THEN assert_hostname
                   ELSE lastConn.identity
       IN  IF Truthy(assert_fingerprint)
           THEN /\ checks = <<"fingerprint">>
                /\ lastConn.exc.kind = "none" <=> lastConn.env.fp = assert_fingerprint
           ELSE IF assert_hostname # "False"
           THEN /\ checks = <<"hostname">>
                /\ lastConn.target = name
                /\ lastConn.exc.kind = "none" <=> lastConn.env.name = name
           ELSE /\ checks = <<>>
                /\ lastConn.exc.kind = "none"

C9_Witness ==
    /\ cop = "connect"
    /\ kind = "VerifiedHTTPSConnection"
    /\ resolve_cert_reqs(cert_reqs) = "CERT_REQUIRED"
    /\ Truthy(assert_fingerprint)
    /\ lastConn.env.fp = assert_fingerprint
    /\ lastConn.env.name # lastConn.identity
    /\ lastConn.env.name # assert_hostname
    /\ lastConn.exc.kind = "none"
    /\ is_verified

\* C10: on a TLS connection with a tunnel target, the tunnel handshake is
\* complete before the TLS handshake starts, auto_open is 0 once the tunnel is
\* made, whatever the handshake and the verification do afterwards, and the
\* verified connection gives the tunnel target to the TLS wrap and, unless an
\* override is set, to the hostname check.
C10_TunnelBeforeTLS ==
    (/\ cop = "connect"
     /\ kind \in TLSKinds
     /\ Truthy(tunnel_host))
    => /\ Has(lastConn.events, "tls") =>
             /\ Has(lastConn.events, "tunnel")
             /\ Pos(lastConn.events, "tunnel") < Pos(lastConn.events, "tls")
       /\ Has(lastConn.events, "tunnel") => auto_open = 0
       /\ (kind = "VerifiedHTTPSConnection" /\ Has(lastConn.events, "tls")) =>
             lastConn.server_hostname = tunnel_host
       /\ (kind = "VerifiedHTTPSConnection" /\ Has(lastConn.events, "hostname")) =>
             lastConn.target = IF Truthy(assert_hostname) THEN assert_hostname
                               ELSE tunnel_host

C10_Witness ==
    /\ cop = "connect"
    /\ kind = "VerifiedHTTPSConnection"
    /\ Truthy(tunnel_host)
    /\ lastConn.exc.kind = "CertificateError"
    /\ lastConn.target = tunnel_host
    /\ lastConn.pre.auto_open = 1
    /\ auto_open = 0

C12_EveryOperationChecked ==
    (/\ last.op \in CheckedOps \cup PlainOps
     /\ last.delegated
     /\ timeout # None
     /\ startResponse # None)
    => last.at <= startResponse + timeout

\* C13: once a deadline check of the stream has raised socket.timeout, the
\* socket is closed and no later read or write operation on the stream
\* succeeds, whatever was called in between.
C13_ExpiryAbsorbing ==
    (expired /\ last.op \in IOOps) => (last.result # "ok" /\ sockClosed)

C13_Witness ==
    /\ expired
    /\ nStarts = 2
    /\ last.op = "read"
    /\ last.at <= startResponse + timeout
    /\ last.delegated
    /\ last.result = "EBADF"

\* C14: every socket.timeout a read or write operation raises, from the check
\* before the call or from inside the wrapped stream, leaves the socket closed.
C14_TimeoutClosesSocket ==
    (last.op \in IOOps /\ last.result = "socket.timeout") => sockClosed

\* C15: the timeout every stream holds is the connection's configured timeout.
C15_StreamTimeoutIsConfigured ==
    timeout = cfgTimeout

\* C16: with a timeout configured and no response start recorded, a read or
\* write call is delegated without a deadline check: it raises nothing of its
\* own, leaves the socket open and leaves the socket's timeout as it was.
C16_NoStartNoCheck ==
    (/\ last.op \in CheckedOps
     /\ timeout # None
     /\ startResponse = None)
    => (/\ last.delegated
        /\ last.elapsed = None
        /\ last.result # "TypeError"
        /\ ~sockClosed)

\* A call that ran the deadline check with a timeout and a start instant.
TimedCheck(l) == l.op \in CheckedOps \cup {"begin"} /\ l.elapsed # None

\* C17, per call: with a timeout T and a start instant, the check raises exactly
\* when elapsed > T; otherwise the call is delegated with the socket's timeout
\* set to max(T - elapsed, 0), a value in 0..T, which is 0 at elapsed = T.
C17_CheckOutcome ==
    (/\ last.op \in CheckedOps \cup {"begin"}
     /\ timeout # None /\ startResponse # None)
    => LET elapsed == last.at - startResponse IN
       /\ last.elapsed = elapsed
       /\ ~last.delegated <=> elapsed > timeout
       /\ ~last.delegated => last.result = "socket.timeout"
       /\ last.delegated =>
            /\ sockTimeout = Max(timeout - elapsed, 0)
            /\ sockTimeout \in 0..timeout
            /\ (elapsed = timeout => sockTimeout = 0)

\* C17, between calls: a check that follows another check of the same response
\* window (no start_response in between) never raises the socket's timeout.
C17_NoIncrease ==
    (/\ TimedCheck(last) /\ last.delegated
     /\ TimedCheck(last') /\ last'.delegated /\ last'.op # "begin"
     /\ startResponse' = startResponse /\ responses' = responses)
    => sockTimeout' <= sockTimeout

\* C17: the deadline check fails exactly when elapsed > T; otherwise it sets the
\* socket's timeout to max(T - elapsed, 0), so the value written is within 0..T,
\* never increases between two checks of one response window, and is exactly 0
\* when elapsed = T.
C17_BudgetIsRemainder == []C17_CheckOutcome /\ [][C17_NoIncrease]_vars

\* A call at elapsed = T > 0 that was delegated with a budget of 0.
C17_Witness ==
    /\ last.op \in CheckedOps /\ timeout # None /\ timeout > 0
    /\ startResponse # None /\ last.at - startResponse = timeout
    /\ last.delegated /\ sockTimeout = 0

\* C18: the start instant is unset from construction until it is first recorded,
\* and begin() records it before its first read: the check of that read sees an
\* elapsed time of 0 and delegates with the whole timeout as budget, however
\* long ago the response object was built.
C18_BeginMarksBeforeRead ==
    /\ nStarts = 0 => startResponse = None
    /\ last.op = "begin" =>
         /\ nStarts > 0
         /\ startResponse = last.at
         /\ last.delegated
         /\ timeout # None =>
              /\ last.elapsed = 0
              /\ last.result \in AnyResult
              /\ sockTimeout = timeout

\* A begin() issued later than one whole timeout after construction succeeds.
C18_Witness ==
    /\ responses = 1 /\ nStarts = 1
    /\ last.op = "begin" /\ last.result = "ok"
    /\ timeout # None /\ timeout > 0 /\ last.at > timeout

\* C19: HTTPConnection.connect() makes the TCP connection first and prepares it
\* only if that succeeded; the prepare step stores the new socket before the
\* tunnel handshake (so it is stored even when the handshake fails), and sets
\* auto_open to 0 exactly when a tunnel target is configured and the handshake
\* went through; otherwise auto_open is what it was before connect().
C19_PrepareAfterConnect ==
    (cop = "connect" /\ kind = "HTTPConnection")
    => LET ev == lastConn.events
           tunnelled == Has(ev, "tunnel")
       IN /\ lastConn.env.tcp # "ok" =>
               /\ ev = <<>>
               /\ lastConn.exc.kind # "none"
               /\ sock = lastConn.pre.sock
          /\ lastConn.env.tcp = "ok" =>
               /\ Len(ev) >= 2 /\ ev[1] = "tcp" /\ ev[2] = "sock"
               /\ sock = [id |-> lastConn.id, layer |-> "raw"]
               /\ \A i \in 1..Len(ev) :
                     ev[i] \in {"tunnel", "tunnel_failed"} => i > Pos(ev, "sock")
          /\ tunnelled <=> /\ Truthy(tunnel_host)
                           /\ lastConn.env.tcp = "ok"
                           /\ lastConn.env.tunnel = "ok"
          /\ auto_open = IF tunnelled THEN 0 ELSE lastConn.pre.auto_open
          /\ ~Truthy(tunnel_host) => auto_open = lastConn.pre.auto_open
          /\ is_verified = lastConn.pre.is_verified

\* A reusable base connection that went through its tunnel handshake.
C19_Witness ==
    /\ cop = "connect" /\ kind = "HTTPConnection"
    /\ Truthy(tunnel_host)
    /\ lastConn.events = <<"tcp", "sock", "tunnel">>
    /\ sock = [id |-> lastConn.id, layer |-> "raw"]
    /\ lastConn.pre.auto_open = 1
    /\ auto_open = 0

====
